---- MODULE Spec2Model ----
(***************************************************************************)
(* Quotation usecase of the boonkosang construction backend:               *)
(*   - buildQuotationResponse / roundFloat (the aggregator), a pure        *)
(*     function, modelled in fixed-point decimal arithmetic;               *)
(*   - CreateOrGetQuotation, ApproveQuotation, ExportQuotation, each       *)
(*     modelled as a sequence of repository calls, one step per call, so   *)
(*     that concurrent invocations interleave between calls.               *)
(* The QuotationRepository implementation is not part of the sources; its  *)
(* operations are modelled from their documented contracts.                *)
(***************************************************************************)
EXTENDS Integers, Sequences, FiniteSets, TLC

\* ------------------------------------------------------------------ bounds
NumProcs == 2
MaxCalls == 4
MaxJobs == 2
MaxCosts == 2

Procs == 1..NumProcs

\* ------------------------------------------------------- float64 as decimals
\* A float64 is modelled as an integer count of 10^-5: exact decimal arithmetic.
Scale == 10^5

\* a * b of two such numbers; the product is split so that no intermediate
\* value leaves the checker's 32-bit integers
FMul(a, b) == (a \div Scale) * b + ((a % Scale) * b) \div Scale

\* sql.NullFloat64 / sql.NullTime
Null == [Valid |-> FALSE, Float64 |-> 0]
Some(x) == [Valid |-> TRUE, Float64 |-> x]

\* math.Round(n / d): the nearest integer, halves away from zero
MathRound(n, d) == IF n < 0 THEN -((2 * (-n) + d) \div (2 * d))
                   ELSE (2 * n + d) \div (2 * d)

\* a rounding that truncates toward zero
roundFloatTrunc(val, precision) ==
    LET ratio == 10^precision
        unit == Scale \div ratio
    IN  (IF val < 0 THEN -((-val) \div unit) ELSE val \div unit) * unit

\* val*ratio is val counted in units of 1/ratio: val / (Scale / ratio)
roundFloat(val, precision) ==
    LET ratio == 10^precision
        unit == Scale \div ratio
    IN  MathRound(val, unit) * unit

getValidTime(nullTime) == IF nullTime.Valid THEN nullTime.Float64 ELSE 0

\* ------------------------------------------------------------ the aggregator
\* the job loop with the material total fed from the per-row material cost
RECURSIVE JobLoopMaterialCost(_, _)
JobLoopMaterialCost(jobs, n) ==
    IF n = 0 THEN [totalLaborCost |-> 0, totalMaterialCost |-> 0, Jobs |-> <<>>]
    ELSE LET acc == JobLoopMaterialCost(jobs, n - 1)
             job == jobs[n]
             materialCost == IF job.EstimatedPrice.Valid
                             THEN job.EstimatedPrice.Float64 ELSE 0
             totalCost == IF job.Total.Valid THEN job.Total.Float64
                          ELSE job.TotalLaborCost
             jobDetail == [LaborCost |-> job.LaborCost,
                           MaterialCost |-> materialCost,
                           TotalCost |-> totalCost,
                           SellingPrice |-> IF job.SellingPrice.Valid
                                            THEN job.SellingPrice.Float64 ELSE 0]
         IN  [totalLaborCost |-> acc.totalLaborCost + job.TotalLaborCost,
              totalMaterialCost |-> acc.totalMaterialCost + materialCost,
              Jobs |-> Append(acc.Jobs, jobDetail)]

\* the loop over jobs (lines 51-81): accumulators after the first n jobs
RECURSIVE JobLoop(_, _)
JobLoop(jobs, n) ==
    IF n = 0 THEN [totalLaborCost |-> 0, totalMaterialCost |-> 0, Jobs |-> <<>>]
    ELSE LET acc == JobLoop(jobs, n - 1)
             job == jobs[n]
             materialCost == IF job.EstimatedPrice.Valid
                             THEN job.EstimatedPrice.Float64 ELSE 0
             totalCost == IF job.Total.Valid THEN job.Total.Float64
                          ELSE job.TotalLaborCost
             jobDetail == [LaborCost |-> job.LaborCost,
                           MaterialCost |-> materialCost,
                           TotalCost |-> totalCost,
                           SellingPrice |-> IF job.SellingPrice.Valid
                                            THEN job.SellingPrice.Float64 ELSE 0]
         IN  [totalLaborCost |-> acc.totalLaborCost + job.TotalLaborCost,
              totalMaterialCost |-> IF job.TotalEstPrice.Valid
                                    THEN acc.totalMaterialCost + job.TotalEstPrice.Float64
                                    ELSE acc.totalMaterialCost,
              Jobs |-> Append(acc.Jobs, jobDetail)]

\* the loop over general costs (lines 84-94)
RECURSIVE CostLoop(_, _)
CostLoop(costs, n) ==
    IF n = 0 THEN [totalGeneralCost |-> 0, Costs |-> <<>>]
    ELSE LET acc == CostLoop(costs, n - 1)
             cost == costs[n]
         IN  IF cost.EstimatedCost.Valid
             THEN [totalGeneralCost |-> acc.totalGeneralCost + cost.EstimatedCost.Float64,
                   Costs |-> Append(acc.Costs,
                                    [EstimatedCost |-> cost.EstimatedCost.Float64])]
             ELSE acc

buildQuotationResponse(quotation, jobs, costs) ==
    LET j == JobLoop(jobs, Len(jobs))
        c == CostLoop(costs, Len(costs))
        subtotal == j.totalLaborCost + j.totalMaterialCost + c.totalGeneralCost
        taxPercentage == IF quotation.TaxPercentage.Valid
                         THEN quotation.TaxPercentage.Float64 ELSE 0
        tax == FMul(subtotal, taxPercentage \div 100)
        total == subtotal + tax
    IN  [QuotationID |-> quotation.QuotationID,
         Status |-> quotation.Status,
         ValidDate |-> getValidTime(quotation.ValidDate),
         Jobs |-> j.Jobs,
         Costs |-> c.Costs,
         Summary |-> [TotalLaborCost |-> roundFloat(j.totalLaborCost, 2),
                      TotalMaterialCost |-> roundFloat(j.totalMaterialCost, 2),
                      TotalGeneralCost |-> roundFloat(c.totalGeneralCost, 2),
                      SubTotal |-> roundFloat(subtotal, 2),
                      Tax |-> roundFloat(tax, 2),
                      Total |-> roundFloat(total, 2)]]

\* ------------------------------------------------------------------- state
VARIABLES
    boqStatus,        \* status of the project's BOQ, as CheckBOQStatus reads it
    quotations,       \* the project's rows of the quotation table
    nextID,           \* next quotation id the repository assigns
    jobRows,          \* rows GetQuotationJobs returns
    costRows,         \* rows GetQuotationGeneralCosts returns
    op,               \* per request: the usecase method being run
    pc,               \* per request: the repository call it is about to issue
    quotation,        \* per request: the local variable quotation
    boqStatusRead,    \* per request: the local variable boqStatus
    quotationStatus,  \* per request: the local variable quotationStatus
    calls,            \* per request: repository calls issued so far, in order
    repoErr,          \* per request: the error a repository call returned
    retErr,           \* per request: the error returned to the caller
    retVal,           \* per request: the value returned to the caller
    createLog,        \* outcomes of the repository's Create, in order
    started,          \* number of usecase invocations started
    aggIn,            \* aggregator under test: its inputs
    aggOut            \* aggregator under test: its last two results

vars == <<boqStatus, quotations, nextID, jobRows, costRows, op, pc, quotation,
          boqStatusRead, quotationStatus, calls, repoErr, retErr, retVal,
          createLog, started, aggIn, aggOut>>

dbVars == <<boqStatus, quotations, nextID, jobRows, costRows>>
aggVars == <<aggIn, aggOut>>

\* ------------------------------------------------------------------ values
Nil == [nil |-> TRUE]
NoErr == <<>>
NoVal == [none |-> TRUE]

\* errors.New(msg)
ErrorsNew(msg) == <<msg>>
\* fmt.Errorf(msg + ": %w", err)
Errorf(msg, err) == <<msg>> \o err

\* errors a repository call may return: the caller's context was cancelled,
\* or the store failed
CtxCanceled == <<"context canceled">>
RepoErrors == {CtxCanceled, <<"connection refused">>}

\* the worked example of the specification
ExampleJobs ==
    << [LaborCost |-> 100 * Scale, TotalLaborCost |-> 100 * Scale,
        EstimatedPrice |-> Some(50 * Scale), TotalEstPrice |-> Some(50 * Scale),
        Total |-> Some(150 * Scale), SellingPrice |-> Null],
       [LaborCost |-> 200 * Scale, TotalLaborCost |-> 200 * Scale,
        EstimatedPrice |-> Null, TotalEstPrice |-> Null,
        Total |-> Null, SellingPrice |-> Null] >>
ExampleCosts == << [EstimatedCost |-> Some(30 * Scale)], [EstimatedCost |-> Null] >>

\* ----------------------------------------------- the quotation repository
\* Create: the row the repository inserts (it assigns the id; status draft)
NewQuotation(id) ==
    [QuotationID |-> id, Status |-> "draft", ValidDate |-> Null,
     TaxPercentage |-> Some(7 * Scale)]

\* Create without the unique key on the project id
CreateConflictsNever(rows) == FALSE

\* Create: the unique key on the project id rejects a second row
CreateConflicts(rows) == rows # {}

\* ValidateApproval: the BOQ is approved and a draft quotation exists
ValidateApprovalOK == boqStatus = "approved" /\ \E q \in quotations : q.Status = "draft"

\* ApproveQuotation: UPDATE quotation SET status = 'approved' WHERE project_id = ..
Approved(rows) == {[q EXCEPT !.Status = "approved"] : q \in rows}

\* ---------------------------------------------------- the usecase's branches
BOQGateNeverFails(status) == FALSE

\* if boqStatus != "approved"
BOQGateFails(status) == status # "approved"

QuotationGateNeverFails(status) == FALSE

\* if quotationStatus != "approved"
QuotationGateFails(status) == status # "approved"

NeedsCreateAlways(q) == TRUE

NeedsCreateNever(q) == FALSE

\* if quotation == nil
NeedsCreate(q) == q = Nil

\* ------------------------------------------------------------ initial state
Init ==
    /\ boqStatus = "draft"
    /\ quotations = {}
    /\ nextID = 1
    /\ jobRows = ExampleJobs
    /\ costRows = ExampleCosts
    /\ op = [p \in Procs |-> "none"]
    /\ pc = [p \in Procs |-> "idle"]
    /\ quotation = [p \in Procs |-> Nil]
    /\ boqStatusRead = [p \in Procs |-> ""]
    /\ quotationStatus = [p \in Procs |-> ""]
    /\ calls = [p \in Procs |-> <<>>]
    /\ repoErr = [p \in Procs |-> NoErr]
    /\ retErr = [p \in Procs |-> NoErr]
    /\ retVal = [p \in Procs |-> NoVal]
    /\ createLog = <<>>
    /\ started = 0
    /\ aggIn = [quotation |-> NewQuotation(1), jobs |-> <<>>, costs |-> <<>>]
    /\ aggOut = <<>>

\* ------------------------------------------------------------ step helpers
Issue(p, name) == calls' = [calls EXCEPT ![p] = Append(@, name)]

\* return val, err
Return(p, val, err) ==
    /\ pc' = [pc EXCEPT ![p] = "done"]
    /\ retVal' = [retVal EXCEPT ![p] = val]
    /\ retErr' = [retErr EXCEPT ![p] = err]

Goto(p, next) ==
    /\ pc' = [pc EXCEPT ![p] = next]
    /\ UNCHANGED <<retVal, retErr>>

\* the repository call returned e
Failed(p, e) == repoErr' = [repoErr EXCEPT ![p] = e]

At(p, o, call) == op[p] = o /\ pc[p] = call

FirstCall(o) == IF o = "ApproveQuotation" THEN "ValidateApproval" ELSE "CheckBOQStatus"

Methods == {"CreateOrGetQuotation", "ApproveQuotation", "ExportQuotation"}

\* a caller invokes a usecase method: the locals are fresh
Begin(p, o) ==
    /\ pc[p] \in {"idle", "done"}
    /\ started < MaxCalls
    /\ started' = started + 1
    /\ op' = [op EXCEPT ![p] = o]
    /\ pc' = [pc EXCEPT ![p] = FirstCall(o)]
    /\ quotation' = [quotation EXCEPT ![p] = Nil]
    /\ boqStatusRead' = [boqStatusRead EXCEPT ![p] = ""]
    /\ quotationStatus' = [quotationStatus EXCEPT ![p] = ""]
    /\ calls' = [calls EXCEPT ![p] = <<>>]
    /\ repoErr' = [repoErr EXCEPT ![p] = NoErr]
    /\ retErr' = [retErr EXCEPT ![p] = NoErr]
    /\ retVal' = [retVal EXCEPT ![p] = NoVal]
    /\ UNCHANGED <<dbVars, createLog, aggVars>>

Invoke(p) == \E o \in Methods : Begin(p, o)

\* a caller invokes a method once every earlier invocation has returned
InvokeInSequence(p) ==
    /\ \A r \in Procs : pc[r] \in {"idle", "done"}
    /\ \E o \in Methods : Begin(p, o)

\* BOQRepository.Approve: the project's BOQ is approved
ApproveBOQ ==
    /\ boqStatus = "draft"
    /\ boqStatus' = "approved"
    /\ UNCHANGED <<quotations, nextID, jobRows, costRows, op, pc, quotation,
                   boqStatusRead, quotationStatus, calls, repoErr, retErr, retVal,
                   createLog, started, aggVars>>

\* ------------------------------------------------- CreateOrGetQuotation
\* lines 132-139 (o = CreateOrGetQuotation) and 208-215 (o = ExportQuotation)
CheckBOQStatusStep(p, o, msg, next) ==
    /\ At(p, o, "CheckBOQStatus")
    /\ Issue(p, "CheckBOQStatus")
    /\ \/ \E e \in RepoErrors :
            /\ Failed(p, e)
            /\ Return(p, NoVal, e)
            /\ UNCHANGED boqStatusRead
       \/ /\ boqStatusRead' = [boqStatusRead EXCEPT ![p] = boqStatus]
          /\ UNCHANGED repoErr
          /\ IF BOQGateFails(boqStatus)
             THEN Return(p, NoVal, ErrorsNew(msg))
             ELSE Goto(p, next)
    /\ UNCHANGED <<dbVars, op, quotation, quotationStatus, createLog, started, aggVars>>

CreateOrGetQuotation_CheckBOQStatus(p) ==
    CheckBOQStatusStep(p, "CreateOrGetQuotation",
                       "BOQ must be approved before creating quotation",
                       "GetByProjectID")

\* lines 141-148
CreateOrGetQuotation_GetByProjectID(p) ==
    /\ At(p, "CreateOrGetQuotation", "GetByProjectID")
    /\ Issue(p, "GetByProjectID")
    /\ \/ \E e \in RepoErrors :
            /\ Failed(p, e)
            /\ Return(p, NoVal, e)
            /\ UNCHANGED quotation
       \/ \E q \in (IF quotations = {} THEN {Nil} ELSE quotations) :
            /\ quotation' = [quotation EXCEPT ![p] = q]
            /\ UNCHANGED repoErr
            /\ Goto(p, IF NeedsCreate(q) THEN "Create" ELSE "GetQuotationJobs")
    /\ UNCHANGED <<dbVars, op, boqStatusRead, quotationStatus, createLog, started, aggVars>>

\* lines 149-153
CreateOrGetQuotation_Create(p) ==
    /\ At(p, "CreateOrGetQuotation", "Create")
    /\ Issue(p, "Create")
    /\ \/ \E e \in RepoErrors \cup
                   (IF CreateConflicts(quotations)
                    THEN {<<"duplicate key value violates unique constraint">>}
                    ELSE {}) :
            /\ Failed(p, e)
            /\ Return(p, NoVal, e)
            /\ createLog' = Append(createLog, "err")
            /\ UNCHANGED <<quotation, quotations, nextID>>
       \/ /\ ~CreateConflicts(quotations)
          /\ quotations' = quotations \cup {NewQuotation(nextID)}
          /\ nextID' = nextID + 1
          /\ quotation' = [quotation EXCEPT ![p] = NewQuotation(nextID)]
          /\ createLog' = Append(createLog, "ok")
          /\ UNCHANGED repoErr
          /\ Goto(p, "GetQuotationJobs")
    /\ UNCHANGED <<boqStatus, jobRows, costRows, op, boqStatusRead, quotationStatus,
                   started, aggVars>>

\* the fetch of the jobs wraps its error in both methods
GetQuotationJobsStepWrapped(p, o, wrapMsg) ==
    /\ At(p, o, "GetQuotationJobs")
    /\ Issue(p, "GetQuotationJobs")
    /\ \/ \E e \in RepoErrors :
            /\ Failed(p, e)
            /\ Return(p, NoVal, Errorf("failed to get quotation jobs", e))
       \/ /\ UNCHANGED repoErr
          /\ Goto(p, "GetQuotationGeneralCosts")
    /\ UNCHANGED <<dbVars, op, quotation, boqStatusRead, quotationStatus, createLog,
                   started, aggVars>>

\* lines 156-159 (no wrapMsg: the error as it is) and 190-193 (wrapped in wrapMsg)
GetQuotationJobsStep(p, o, wrapMsg) ==
    /\ At(p, o, "GetQuotationJobs")
    /\ Issue(p, "GetQuotationJobs")
    /\ \/ \E e \in RepoErrors :
            /\ Failed(p, e)
            /\ Return(p, NoVal, IF wrapMsg = "" THEN e ELSE Errorf(wrapMsg, e))
       \/ /\ UNCHANGED repoErr
          /\ Goto(p, "GetQuotationGeneralCosts")
    /\ UNCHANGED <<dbVars, op, quotation, boqStatusRead, quotationStatus, createLog,
                   started, aggVars>>

CreateOrGetQuotation_GetQuotationJobs(p) ==
    GetQuotationJobsStep(p, "CreateOrGetQuotation", "")

\* a nil quotation makes buildQuotationResponse dereference nil: the call panics
Panic == <<"panic: invalid memory address or nil pointer dereference">>

\* lines 161-168
CreateOrGetQuotation_GetQuotationGeneralCosts(p) ==
    /\ At(p, "CreateOrGetQuotation", "GetQuotationGeneralCosts")
    /\ Issue(p, "GetQuotationGeneralCosts")
    /\ \/ \E e \in RepoErrors :
            /\ Failed(p, e)
            /\ Return(p, NoVal, e)
       \/ /\ UNCHANGED repoErr
          /\ IF quotation[p] = Nil
             THEN Return(p, NoVal, Panic)
             ELSE Return(p, buildQuotationResponse(quotation[p], jobRows, costRows), NoErr)
    /\ UNCHANGED <<dbVars, op, quotation, boqStatusRead, quotationStatus, createLog,
                   started, aggVars>>

\* ----------------------------------------------------- ApproveQuotation
\* the approval write is issued although ValidateApproval failed
ApproveQuotation_ValidateApprovalIgnored(p) ==
    /\ At(p, "ApproveQuotation", "ValidateApproval")
    /\ Issue(p, "ValidateApproval")
    /\ \/ \E e \in RepoErrors \cup
                   (IF ValidateApprovalOK THEN {} ELSE {<<"validation failed">>}) :
            /\ Failed(p, e)
            /\ Goto(p, "ApproveQuotation")
       \/ /\ ValidateApprovalOK
          /\ UNCHANGED repoErr
          /\ Goto(p, "ApproveQuotation")
    /\ UNCHANGED <<dbVars, op, quotation, boqStatusRead, quotationStatus, createLog,
                   started, aggVars>>

\* lines 173-176
ApproveQuotation_ValidateApproval(p) ==
    /\ At(p, "ApproveQuotation", "ValidateApproval")
    /\ Issue(p, "ValidateApproval")
    /\ \/ \E e \in RepoErrors \cup
                   (IF ValidateApprovalOK THEN {} ELSE {<<"validation failed">>}) :
            /\ Failed(p, e)
            /\ Return(p, NoVal, e)
       \/ /\ ValidateApprovalOK
          /\ UNCHANGED repoErr
          /\ Goto(p, "ApproveQuotation")
    /\ UNCHANGED <<dbVars, op, quotation, boqStatusRead, quotationStatus, createLog,
                   started, aggVars>>

\* lines 179-182
ApproveQuotation_ApproveQuotation(p) ==
    /\ At(p, "ApproveQuotation", "ApproveQuotation")
    /\ Issue(p, "ApproveQuotation")
    /\ \/ \E e \in RepoErrors :
            /\ Failed(p, e)
            /\ Return(p, NoVal, e)
            /\ UNCHANGED quotations
       \/ /\ quotations' = Approved(quotations)
          /\ UNCHANGED repoErr
          /\ Goto(p, "GetByProjectID")
    /\ UNCHANGED <<boqStatus, nextID, jobRows, costRows, op, quotation, boqStatusRead,
                   quotationStatus, createLog, started, aggVars>>

\* a failed confirmation fetch undoes the approval
ApproveQuotation_GetByProjectIDRollback(p) ==
    /\ At(p, "ApproveQuotation", "GetByProjectID")
    /\ Issue(p, "GetByProjectID")
    /\ \/ \E e \in RepoErrors :
            /\ Failed(p, e)
            /\ Return(p, NoVal, Errorf("failed to get updated quotation", e))
            /\ quotations' = {[q EXCEPT !.Status = "draft"] : q \in quotations}
            /\ UNCHANGED quotation
       \/ \E q \in (IF quotations = {} THEN {Nil} ELSE quotations) :
            /\ quotation' = [quotation EXCEPT ![p] = q]
            /\ UNCHANGED <<repoErr, quotations>>
            /\ Goto(p, "GetQuotationJobs")
    /\ UNCHANGED <<boqStatus, nextID, jobRows, costRows, op, boqStatusRead,
                   quotationStatus, createLog, started, aggVars>>

\* lines 185-188
ApproveQuotation_GetByProjectID(p) ==
    /\ At(p, "ApproveQuotation", "GetByProjectID")
    /\ Issue(p, "GetByProjectID")
    /\ \/ \E e \in RepoErrors :
            /\ Failed(p, e)
            /\ Return(p, NoVal, Errorf("failed to get updated quotation", e))
            /\ UNCHANGED quotation
       \/ \E q \in (IF quotations = {} THEN {Nil} ELSE quotations) :
            /\ quotation' = [quotation EXCEPT ![p] = q]
            /\ UNCHANGED repoErr
            /\ Goto(p, "GetQuotationJobs")
    /\ UNCHANGED <<dbVars, op, boqStatusRead, quotationStatus, createLog, started, aggVars>>

\* lines 190-193
ApproveQuotation_GetQuotationJobs(p) ==
    GetQuotationJobsStep(p, "ApproveQuotation", "failed to get quotation jobs")

\* lines 195-202: the response is built and dropped
ApproveQuotation_GetQuotationGeneralCosts(p) ==
    /\ At(p, "ApproveQuotation", "GetQuotationGeneralCosts")
    /\ Issue(p, "GetQuotationGeneralCosts")
    /\ \/ \E e \in RepoErrors :
            /\ Failed(p, e)
            /\ Return(p, NoVal, Errorf("failed to get quotation costs", e))
       \/ /\ UNCHANGED repoErr
          /\ IF quotation[p] = Nil
             THEN Return(p, NoVal, Panic)
             ELSE Return(p, NoVal, NoErr)
    /\ UNCHANGED <<dbVars, op, quotation, boqStatusRead, quotationStatus, createLog,
                   started, aggVars>>

\* ------------------------------------------------------- ExportQuotation
\* lines 208-215
ExportQuotation_CheckBOQStatus(p) ==
    CheckBOQStatusStep(p, "ExportQuotation",
                       "BOQ must be approved before exporting quotation",
                       "GetQuotationStatus")

\* lines 217-224
ExportQuotation_GetQuotationStatus(p) ==
    /\ At(p, "ExportQuotation", "GetQuotationStatus")
    /\ Issue(p, "GetQuotationStatus")
    /\ \/ \E e \in RepoErrors \cup
                   (IF quotations = {} THEN {<<"quotation not found">>} ELSE {}) :
            /\ Failed(p, e)
            /\ Return(p, NoVal, e)
            /\ UNCHANGED quotationStatus
       \/ \E q \in quotations :
            /\ quotationStatus' = [quotationStatus EXCEPT ![p] = q.Status]
            /\ UNCHANGED repoErr
            /\ IF QuotationGateFails(q.Status)
               THEN Return(p, NoVal, ErrorsNew("only approved quotations can be exported"))
               ELSE Goto(p, "GetExportData")
    /\ UNCHANGED <<dbVars, op, quotation, boqStatusRead, createLog, started, aggVars>>

\* GetExportData: the denormalised bundle of the project
ExportData(q) ==
    [BOQStatus |-> boqStatus, Quotation |-> buildQuotationResponse(q, jobRows, costRows)]

\* lines 227-232
ExportQuotation_GetExportData(p) ==
    /\ At(p, "ExportQuotation", "GetExportData")
    /\ Issue(p, "GetExportData")
    /\ \/ \E e \in RepoErrors \cup
                   (IF quotations = {} THEN {<<"quotation not found">>} ELSE {}) :
            /\ Failed(p, e)
            /\ Return(p, NoVal, e)
       \/ \E q \in quotations :
            /\ UNCHANGED repoErr
            /\ Return(p, ExportData(q), NoErr)
    /\ UNCHANGED <<dbVars, op, quotation, boqStatusRead, quotationStatus, createLog,
                   started, aggVars>>

\* --------------------------------------------------------- specifications
Step(p) ==
    \/ CreateOrGetQuotation_CheckBOQStatus(p)
    \/ CreateOrGetQuotation_GetByProjectID(p)
    \/ CreateOrGetQuotation_Create(p)
    \/ CreateOrGetQuotation_GetQuotationJobs(p)
    \/ CreateOrGetQuotation_GetQuotationGeneralCosts(p)
    \/ ApproveQuotation_ValidateApproval(p)
    \/ ApproveQuotation_ApproveQuotation(p)
    \/ ApproveQuotation_GetByProjectID(p)
    \/ ApproveQuotation_GetQuotationJobs(p)
    \/ ApproveQuotation_GetQuotationGeneralCosts(p)
    \/ ExportQuotation_CheckBOQStatus(p)
    \/ ExportQuotation_GetQuotationStatus(p)
    \/ ExportQuotation_GetExportData(p)

\* concurrent requests
Next ==
    \/ ApproveBOQ
    \/ \E p \in Procs : Invoke(p)
    \/ \E p \in Procs : Step(p)

Spec == Init /\ [][Next]_vars

\* requests one after the other
NextSeq ==
    \/ ApproveBOQ
    \/ \E p \in Procs : InvokeInSequence(p)
    \/ \E p \in Procs : Step(p)

SpecSeq == Init /\ [][NextSeq]_vars

\* --------------------------------------------- the aggregator on its own
\* amounts have three decimals; none of their sums is half a cent
Job(labor, est, totalEst, total, selling) ==
    [LaborCost |-> labor, TotalLaborCost |-> labor, EstimatedPrice |-> est,
     TotalEstPrice |-> totalEst, Total |-> total, SellingPrice |-> selling]

JobDomain ==
    { ExampleJobs[1], ExampleJobs[2],
      Job(100400, Null, Some(200800), Null, Null),
      Job(100400, Some(100400), Null, Null, Some(300000)),
      Job(400, Some(100400), Some(100400), Some(100800), Null),
      Job(0, Some(0), Some(0), Some(0), Some(0)) }

CostDomain == { ExampleCosts[1], ExampleCosts[2],
                [EstimatedCost |-> Some(400)], [EstimatedCost |-> Some(-99600)] }

QuotationDomain ==
    { [NewQuotation(1) EXCEPT !.TaxPercentage = t] : t \in {Null, Some(7 * Scale), Some(0)} }

RECURSIVE SeqsUpTo(_, _)
SeqsUpTo(S, n) ==
    IF n = 0 THEN {<<>>}
    ELSE LET shorter == SeqsUpTo(S, n - 1)
         IN  shorter \cup {Append(q, x) : q \in {r \in shorter : Len(r) = n - 1}, x \in S}

InitAgg ==
    /\ boqStatus = "draft"
    /\ quotations = {}
    /\ nextID = 1
    /\ jobRows = ExampleJobs
    /\ costRows = ExampleCosts
    /\ op = [p \in Procs |-> "none"]
    /\ pc = [p \in Procs |-> "idle"]
    /\ quotation = [p \in Procs |-> Nil]
    /\ boqStatusRead = [p \in Procs |-> ""]
    /\ quotationStatus = [p \in Procs |-> ""]
    /\ calls = [p \in Procs |-> <<>>]
    /\ repoErr = [p \in Procs |-> NoErr]
    /\ retErr = [p \in Procs |-> NoErr]
    /\ retVal = [p \in Procs |-> NoVal]
    /\ createLog = <<>>
    /\ started = 0
    /\ aggIn \in [quotation : QuotationDomain,
                  jobs : SeqsUpTo(JobDomain, MaxJobs),
                  costs : SeqsUpTo(CostDomain, MaxCosts)]
    /\ aggOut = <<>>

\* buildQuotationResponse applied to the inputs
Aggregate ==
    /\ aggOut = <<>>
    /\ aggOut' = <<buildQuotationResponse(aggIn.quotation, aggIn.jobs, aggIn.costs)>>
    /\ UNCHANGED <<aggIn, dbVars, op, pc, quotation, boqStatusRead, quotationStatus,
                   calls, repoErr, retErr, retVal, createLog, started>>

\* buildQuotationResponse applied again, with one more job at the end of the list
AggregateWithJob(job) ==
    /\ Len(aggOut) = 1
    /\ aggIn' = [aggIn EXCEPT !.jobs = Append(@, job)]
    /\ aggOut' = <<aggOut[1],
                   buildQuotationResponse(aggIn.quotation, Append(aggIn.jobs, job),
                                          aggIn.costs)>>
    /\ UNCHANGED <<dbVars, op, pc, quotation, boqStatusRead, quotationStatus,
                   calls, repoErr, retErr, retVal, createLog, started>>

NextAgg ==
    \/ Aggregate
    \/ \E job \in JobDomain : AggregateWithJob(job)

SpecAgg == InitAgg /\ [][NextAgg]_vars

\* ================================================================= claims
Returned(p, o) == op[p] = o /\ pc[p] = "done"

\* request p took a step
Moved(p) == pc'[p] # pc[p]

ErrBOQCreate == ErrorsNew("BOQ must be approved before creating quotation")
ErrBOQExport == ErrorsNew("BOQ must be approved before exporting quotation")
ErrNotApproved == ErrorsNew("only approved quotations can be exported")

\* C1: when CheckBOQStatus returns a status other than "approved",
\* CreateOrGetQuotation returns the precondition error at once: CheckBOQStatus is
\* the only repository call of the invocation (Create is never called) and the
\* step leaves the set of quotations as it was.
C1_PreconditionFailed ==
    [][\A p \in Procs :
        (/\ At(p, "CreateOrGetQuotation", "CheckBOQStatus")
         /\ Moved(p)
         /\ repoErr'[p] = NoErr
         /\ boqStatus # "approved")
        => /\ pc'[p] = "done"
           /\ retErr'[p] = ErrBOQCreate
           /\ retVal'[p] = NoVal
           /\ calls'[p] = <<"CheckBOQStatus">>
           /\ createLog' = createLog
           /\ quotations' = quotations]_vars

C1_Witness ==
    \E p \in Procs :
        /\ Returned(p, "CreateOrGetQuotation")
        /\ boqStatusRead[p] = "draft"
        /\ retErr[p] = ErrBOQCreate

\* what an ExportQuotation invocation has read, issued and returned
C2_ExportState ==
    \A p \in Procs :
        op[p] = "ExportQuotation" =>
            /\ (retVal[p] # NoVal \/ pc[p] = "GetExportData"
                    \/ \E i \in 1..Len(calls[p]) : calls[p][i] = "GetExportData")
                => /\ boqStatusRead[p] = "approved"
                   /\ quotationStatus[p] = "approved"
                   /\ SubSeq(calls[p], 1, 2) = <<"CheckBOQStatus", "GetQuotationStatus">>
            /\ (pc[p] = "done" /\ boqStatusRead[p] = "approved"
                    /\ quotationStatus[p] = "draft")
                => /\ retErr[p] = ErrNotApproved
                   /\ retVal[p] = NoVal
                   /\ calls[p] = <<"CheckBOQStatus", "GetQuotationStatus">>

\* C2: ExportQuotation returns the export dataset only if, in that invocation,
\* CheckBOQStatus and then GetQuotationStatus returned "approved"; GetExportData
\* is issued only after both gates passed; with the BOQ approved and the
\* quotation in draft it fails; and no step of it changes the BOQ status, the
\* quotation status or the set of quotations.
C2_ExportGated ==
    [][/\ C2_ExportState'
       /\ \A p \in Procs :
            (op[p] = "ExportQuotation" /\ Moved(p) /\ pc[p] # "done")
                => UNCHANGED <<boqStatus, quotations>>]_vars

C2_Witness ==
    /\ \E p \in Procs :
        /\ Returned(p, "ExportQuotation")
        /\ retVal[p] # NoVal
        /\ retErr[p] = NoErr
    /\ \E p \in Procs :
        /\ Returned(p, "ExportQuotation")
        /\ boqStatusRead[p] = "approved"
        /\ quotationStatus[p] = "draft"
        /\ retErr[p] = ErrNotApproved

\* C3: with invocations in sequence, the repository's Create succeeds at most
\* once and is never invoked again after it has succeeded: a later
\* CreateOrGetQuotation finds the quotation through GetByProjectID.
C3_CreateOnce ==
    /\ \A i \in 1..Len(createLog) : createLog[i] = "ok" => i = Len(createLog)
    /\ \A p \in Procs : pc[p] = "Create" => quotations = {}
    /\ Cardinality(quotations) <= 1

C3_Witness ==
    /\ createLog = <<"ok">>
    /\ \A p \in Procs :
        /\ Returned(p, "CreateOrGetQuotation")
        /\ retErr[p] = NoErr
    /\ calls[1] = <<"CheckBOQStatus", "GetByProjectID", "Create",
                    "GetQuotationJobs", "GetQuotationGeneralCosts">>
    /\ calls[2] = <<"CheckBOQStatus", "GetByProjectID",
                    "GetQuotationJobs", "GetQuotationGeneralCosts">>
    /\ retVal[1] = retVal[2]

Has(p, call) == \E i \in 1..Len(calls[p]) : calls[p][i] = call

\* what an ApproveQuotation invocation has issued and returned
C5_State ==
    \A p \in Procs :
        op[p] = "ApproveQuotation" =>
            /\ (pc[p] = "ApproveQuotation" \/ Has(p, "ApproveQuotation"))
                => /\ calls[p][1] = "ValidateApproval"
                   /\ (repoErr[p] = NoErr \/ Len(calls[p]) >= 2)
            /\ pc[p] = "ApproveQuotation" => repoErr[p] = NoErr
            /\ (calls[p] = <<"ValidateApproval">> /\ repoErr[p] # NoErr)
                => /\ pc[p] = "done"
                   /\ retErr[p] = repoErr[p]

\* C5: ApproveQuotation issues the approval write only after ValidateApproval
\* succeeded in the same invocation; when ValidateApproval fails its error is
\* returned unchanged, ValidateApproval is the invocation's only repository
\* call, and the step leaves the quotations as they were.
C5_ValidateBeforeApprove ==
    [][/\ C5_State'
       /\ \A p \in Procs :
            (At(p, "ApproveQuotation", "ValidateApproval") /\ Moved(p))
                => /\ quotations' = quotations
                   /\ (repoErr'[p] # NoErr =>
                        /\ pc'[p] = "done"
                        /\ retErr'[p] = repoErr'[p]
                        /\ calls'[p] = <<"ValidateApproval">>)]_vars

C5_Witness ==
    /\ \E p \in Procs :
        /\ Returned(p, "ApproveQuotation")
        /\ retErr[p] = <<"validation failed">>
        /\ calls[p] = <<"ValidateApproval">>
    /\ \E p \in Procs :
        /\ op[p] = "ApproveQuotation"
        /\ Has(p, "ApproveQuotation")
        /\ \A q \in quotations : q.Status = "approved"
        /\ quotations # {}

\* C6: with invocations in sequence: when a confirmation fetch of
\* ApproveQuotation fails after the approval write succeeded, the invocation
\* returns an error and the quotation is approved in the state where it
\* returns; when the approval write itself fails, the quotation is still draft.
C6_NoRollback ==
    [][\A p \in Procs :
        (op[p] = "ApproveQuotation" /\ Moved(p) /\ pc'[p] = "done"
            /\ repoErr'[p] # NoErr)
        => /\ retErr'[p] # NoErr
           /\ (pc[p] \in {"GetByProjectID", "GetQuotationJobs", "GetQuotationGeneralCosts"}
                => /\ quotations' # {}
                   /\ \A q \in quotations' : q.Status = "approved")
           /\ (pc[p] = "ApproveQuotation"
                => /\ quotations' # {}
                   /\ \A q \in quotations' : q.Status = "draft")]_vars

C6_Witness ==
    /\ \E p \in Procs :
        /\ Returned(p, "ApproveQuotation")
        /\ Len(calls[p]) = 3
        /\ repoErr[p] # NoErr
        /\ retErr[p] # NoErr
        /\ \A q \in quotations : q.Status = "approved"
    /\ \E p \in Procs :
        /\ Returned(p, "ApproveQuotation")
        /\ calls[p] = <<"ValidateApproval", "ApproveQuotation">>
        /\ repoErr[p] # NoErr

\* C9 as stated: whenever a repository call fails because the context was
\* cancelled, the invocation returns exactly the repository's error.
C9_Original ==
    \A p \in Procs :
        (pc[p] = "done" /\ repoErr[p] = CtxCanceled) => retErr[p] = repoErr[p]

ConfirmationFetches == {"GetByProjectID", "GetQuotationJobs", "GetQuotationGeneralCosts"}

WrapMessage(call) ==
    CASE call = "GetByProjectID" -> "failed to get updated quotation"
      [] call = "GetQuotationJobs" -> "failed to get quotation jobs"
      [] call = "GetQuotationGeneralCosts" -> "failed to get quotation costs"
      [] OTHER -> ""

\* C9, amended: when a repository call fails because the context was cancelled,
\* the invocation issues no further repository call and returns the
\* repository's error: unchanged everywhere but in ApproveQuotation's three
\* confirmation fetches, which return it wrapped in a message naming the fetch,
\* the repository's error remaining the tail of the chain.
C9_Propagated ==
    \A p \in Procs :
        repoErr[p] = CtxCanceled =>
            /\ pc[p] = "done"
            /\ retVal[p] = NoVal
            /\ LET last == calls[p][Len(calls[p])]
               IN  IF op[p] = "ApproveQuotation" /\ last \in ConfirmationFetches
                   THEN retErr[p] = <<WrapMessage(last)>> \o CtxCanceled
                   ELSE retErr[p] = CtxCanceled

C9_Witness ==
    /\ \E p \in Procs :
        /\ Returned(p, "ApproveQuotation")
        /\ retErr[p] = <<"failed to get quotation jobs", "context canceled">>
    /\ \E p \in Procs :
        /\ Returned(p, "CreateOrGetQuotation")
        /\ calls[p][Len(calls[p])] = "GetQuotationJobs"
        /\ retErr[p] = CtxCanceled

\* C10: buildQuotationResponse is never applied to a nil quotation: past
\* GetByProjectID (and Create) the local quotation of CreateOrGetQuotation and
\* of ApproveQuotation is never nil, and no invocation ends in the nil
\* dereference.
C10_NeverNil ==
    \A p \in Procs :
        /\ retErr[p] # Panic
        /\ (op[p] \in {"CreateOrGetQuotation", "ApproveQuotation"}
                /\ pc[p] \in {"GetQuotationJobs", "GetQuotationGeneralCosts"})
            => quotation[p] # Nil
        /\ (Returned(p, "CreateOrGetQuotation") /\ retErr[p] = NoErr)
            => retVal[p] = buildQuotationResponse(quotation[p], jobRows, costRows)

C10_Witness ==
    /\ \E p \in Procs :
        /\ Returned(p, "CreateOrGetQuotation")
        /\ Has(p, "Create")
        /\ retErr[p] = NoErr
        /\ retVal[p] # NoVal
    /\ \E p \in Procs :
        /\ Returned(p, "ApproveQuotation")
        /\ Len(calls[p]) = 5
        /\ retErr[p] = NoErr

\* ------------------------------------------- the reference computation
\* sum of the values of a list of optional numbers that are present
RECURSIVE SumPresent(_)
SumPresent(xs) ==
    IF xs = <<>> THEN 0
    ELSE (IF Head(xs).Valid THEN Head(xs).Float64 ELSE 0) + SumPresent(Tail(xs))

RefLabor(in) == SumPresent([i \in 1..Len(in.jobs) |-> Some(in.jobs[i].TotalLaborCost)])
RefMaterial(in) == SumPresent([i \in 1..Len(in.jobs) |-> in.jobs[i].TotalEstPrice])
RefGeneral(in) == SumPresent([i \in 1..Len(in.costs) |-> in.costs[i].EstimatedCost])
RefSubtotal(in) == RefLabor(in) + RefMaterial(in) + RefGeneral(in)
\* the tax percentages of QuotationDomain are whole numbers
RefTax(in) ==
    IF in.quotation.TaxPercentage.Valid
    THEN (RefSubtotal(in) * (in.quotation.TaxPercentage.Float64 \div Scale)) \div 100
    ELSE 0
RefTotal(in) == RefSubtotal(in) + RefTax(in)

\* the multiple of 0.01 nearest to v (no input of the domains gives a tie)
RefCents(v) ==
    LET cent == Scale \div 100
        lo == (v \div cent) * cent
        hi == lo + cent
    IN  IF v - lo < hi - v THEN lo
        ELSE IF v - lo > hi - v THEN hi
        ELSE IF v < 0 THEN lo ELSE hi

Latest == aggOut[Len(aggOut)].Summary

\* C7 as stated: the summary equals the reference computation itself.
C7_Original ==
    aggOut # <<>> =>
        /\ Latest.TotalLaborCost = RefLabor(aggIn)
        /\ Latest.TotalMaterialCost = RefMaterial(aggIn)
        /\ Latest.TotalGeneralCost = RefGeneral(aggIn)
        /\ Latest.SubTotal = RefSubtotal(aggIn)
        /\ Latest.Tax = RefTax(aggIn)
        /\ Latest.Total = RefTotal(aggIn)

\* C7, amended: each of the six summary fields equals the reference value
\* rounded to two decimal places: the labor totals summed, the present total
\* estimated prices summed, the present estimated costs summed, their sum, that
\* sum times taxPercentage / 100 (0 when absent), and subtotal plus tax; with no
\* taxPercentage the tax is 0 and the total equals the subtotal.
C7_RoundedReference ==
    aggOut # <<>> =>
        /\ Latest.TotalLaborCost = RefCents(RefLabor(aggIn))
        /\ Latest.TotalMaterialCost = RefCents(RefMaterial(aggIn))
        /\ Latest.TotalGeneralCost = RefCents(RefGeneral(aggIn))
        /\ Latest.SubTotal = RefCents(RefSubtotal(aggIn))
        /\ Latest.Tax = RefCents(RefTax(aggIn))
        /\ Latest.Total = RefCents(RefTotal(aggIn))
        /\ ~aggIn.quotation.TaxPercentage.Valid
            => Latest.Tax = 0 /\ Latest.Total = Latest.SubTotal

\* the worked example: 300, 50, 30, 380, 26.6, 406.6
C7_Witness ==
    /\ aggIn.jobs = ExampleJobs
    /\ aggIn.costs = ExampleCosts
    /\ aggIn.quotation.TaxPercentage = Some(7 * Scale)
    /\ aggOut # <<>>
    /\ Latest = [TotalLaborCost |-> 300 * Scale, TotalMaterialCost |-> 50 * Scale,
                 TotalGeneralCost |-> 30 * Scale, SubTotal |-> 380 * Scale,
                 Tax |-> 2660000, Total |-> 40660000]

Added == aggIn.jobs[Len(aggIn.jobs)]

\* C8 as stated: a job whose estimated price is absent leaves totalMaterialCost
\* as it was, whatever its other fields.
C8_Original ==
    (Len(aggOut) = 2 /\ ~Added.EstimatedPrice.Valid)
        => aggOut[2].Summary.TotalMaterialCost = aggOut[1].Summary.TotalMaterialCost

\* C8, amended: a job whose total estimated price is absent leaves
\* totalMaterialCost as it was, whatever its other fields (its estimated price
\* included).
C8_AbsentTotalEstPrice ==
    (Len(aggOut) = 2 /\ ~Added.TotalEstPrice.Valid)
        => aggOut[2].Summary.TotalMaterialCost = aggOut[1].Summary.TotalMaterialCost

\* a job with an estimated price and no total estimated price was added to a
\* list whose material total is not zero
C8_Witness ==
    /\ Len(aggOut) = 2
    /\ ~Added.TotalEstPrice.Valid
    /\ Added.EstimatedPrice.Valid
    /\ Added.EstimatedPrice.Float64 > Scale
    /\ aggOut[1].Summary.TotalMaterialCost > 0
    /\ aggOut[2].Summary.TotalLaborCost > aggOut[1].Summary.TotalLaborCost

====
